---------------------------- MODULE Spec2Model ----------------------------
(***************************************************************************)
(* A model of setup.py of the Brotli Python bindings: the system-library   *)
(* resolver (pkg-config queries), the version extractor (read_define,      *)
(* get_version) and the extension builder (BuildExt.build_extension).      *)
(*                                                                         *)
(* Three specifications share the module, one per component:               *)
(*   SpecResolve  the module-level resolver run, setup.py lines 30-94      *)
(*   SpecVersion  get_version over a version header, lines 100-118         *)
(*   SpecBuild    repeated build_extension invocations, lines 135-202      *)
(***************************************************************************)
EXTENDS Integers, Sequences, FiniteSets, TLC

VARIABLES
  \* ---- resolver (module scope, lines 30-94)
  libs,                 \* the requirement sequence handed to _find_system_libraries
  registry_exists,      \* the registry: pkgconfig.exists(lib)
  registry_version,     \* the registry: pkgconfig.modversion(lib) of an existing lib
  rpc,                  \* position of the resolver run
  idx,                  \* index of the loop `for lib in libs`
  ext_kwarg_libraries,  \* the module-level accumulator (line 37)
  ext_kwargs,           \* the module-level dict (line 36)
  parse_calls,          \* the libraries pkgconfig.parse was queried for, in order
  \* ---- version extractor (lines 100-118)
  header,               \* the lines of c/common/version.h
  vpc,                  \* position of the get_version call
  VERSION,              \* the module-level VERSION (line 207)
  \* ---- extension builder (lines 127-202)
  ext,                  \* the Extension object handed to build_extension
  platform_system,      \* platform.system()
  compiler_type,        \* self.compiler.compiler_type
  force,                \* self.force
  mtime,                \* modification time of each input file, or Missing
  artifact,             \* modification time of the file at ext_path, or Missing
  clock,                \* the file system's current time
  bpc,                  \* position of the build_extension invocation
  error,                \* the exception that ended the invocation, or NoError
  objects,              \* the local list `objects`
  built_objects,        \* self._built_objects
  compile_log,          \* compiler.compile calls of this invocation
  link_log,             \* compiler.link_shared_object calls of this invocation
  builds,               \* invocations started so far
  prev,                 \* how the previous invocation ended
  touched               \* an input file changed since the previous invocation

resolveVars == <<libs, registry_exists, registry_version, rpc, idx,
                 ext_kwarg_libraries, ext_kwargs, parse_calls>>
versionVars == <<header, vpc, VERSION>>
buildVars == <<ext, platform_system, compiler_type, force, mtime, artifact, clock,
               bpc, error, objects, built_objects, compile_log, link_log, builds, prev,
               touched>>
vars == <<resolveVars, versionVars, buildVars>>

\* ------------------------------------------------------------------------
\* Bounds
\* ------------------------------------------------------------------------
\* longest requirement sequence explored
MaxLibs == 3
\* most lines in a version header explored
MaxLines == 4
\* latest time the file system's clock reaches
MaxClock == 2
\* most build_extension invocations in one process
MaxBuilds == 2

\* sequences over S of length lo..hi
SeqsOf(S, lo, hi) == UNION {[1..n -> S] : n \in lo..hi}

\* ------------------------------------------------------------------------
\* The package-metadata registry (the pkgconfig module, consumed)
\* ------------------------------------------------------------------------
\* the libbrotli libraries looked for on the system (line 33)
LibNames == {"libbrotlidec", "libbrotlienc", "libbrotlicommon"}

\* installed versions a registry may report, as number tuples
Versions == {<<1, 0, 7>>, <<1, 0, 9>>, <<1, 1, 0>>}

\* BROTLI_REQUIRED_VERSION = '>= 1.0.9' (line 30), split into comparator and number
BROTLI_REQUIRED_VERSION == [comparator |-> ">=", number |-> <<1, 0, 9>>]

\* a version string used as a specifier carries no comparator: "1.0.7" reads
\* as comparator '' and number 1.0.7 (what line 54 hands to pkgconfig.installed)
SpecifierOfVersion(v) == [comparator |-> "", number |-> v]

\* component-wise comparison of two version numbers: -1, 0 or 1
CompareVersions(a, b) ==
  LET n == IF Len(a) < Len(b) THEN Len(a) ELSE Len(b)
      diff == {i \in 1..n : a[i] # b[i]}
  IN IF diff = {}
       THEN (IF Len(a) < Len(b) THEN -1 ELSE IF Len(a) > Len(b) THEN 1 ELSE 0)
       ELSE LET i == CHOOSE j \in diff : \A k \in diff : j <= k
            IN IF a[i] < b[i] THEN -1 ELSE 1

\* whether installed version v satisfies a specifier
Satisfies(v, specifier) ==
  LET c == CompareVersions(v, specifier.number)
  IN CASE specifier.comparator \in {"", "=", "=="} -> c = 0
       [] specifier.comparator = ">=" -> c >= 0
       [] specifier.comparator = ">"  -> c > 0
       [] specifier.comparator = "<=" -> c <= 0
       [] specifier.comparator = "<"  -> c < 0
       [] OTHER -> FALSE

\* pkgconfig.exists(lib), line 46
pkgconfig_exists(lib) == registry_exists[lib]

\* pkgconfig.modversion(lib), line 50 (of a library that exists)
pkgconfig_modversion(lib) == registry_version[lib]

\* pkgconfig.installed(lib, specifier), line 54
pkgconfig_installed(lib, specifier) ==
  pkgconfig_exists(lib) /\ Satisfies(pkgconfig_modversion(lib), specifier)

\* the name the linker looks for, per library
LinkName(lib) ==
  CASE lib = "libbrotlidec" -> "brotlidec"
    [] lib = "libbrotlienc" -> "brotlienc"
    [] OTHER -> "brotlicommon"

\* pkgconfig.parse(lib), line 71: the flags dictionary of the library
pkgconfig_parse(lib) ==
  [libraries |-> <<LinkName(lib)>>,
   include_dirs |-> <<"/usr/include">>,
   library_dirs |-> <<"/usr/lib">>,
   define_macros |-> <<>>]

\* ------------------------------------------------------------------------
\* The resolver
\* ------------------------------------------------------------------------
\* ext_kwargs before line 93 assigns the 'libraries' key
NoKwargs == [set |-> FALSE, libraries |-> <<>>]

\* faulty variant: the check accepts a library the registry does not know
InstalledCheckIgnoringExistence(lib, version) == TRUE

\* _pkgconfig_installed_check(lib, version): TRUE when no exception is raised.
\* The parameter `version` is overwritten at line 50 by the installed
\* version, which line 54 then uses as the specifier.
InstalledCheckPasses(lib, version) ==
  /\ pkgconfig_exists(lib)
  /\ LET version2 == SpecifierOfVersion(pkgconfig_modversion(lib))
         installed == pkgconfig_installed(lib, version2)
     IN installed

\* one iteration of the loop, first half (line 85)
InstalledCheck ==
  /\ rpc = "check"
  /\ idx <= Len(libs)
  /\ rpc' = IF InstalledCheckPasses(libs[idx], BROTLI_REQUIRED_VERSION)
              THEN "parse" ELSE "failed"
  /\ UNCHANGED <<libs, registry_exists, registry_version, idx,
                 ext_kwarg_libraries, ext_kwargs, parse_calls, versionVars, buildVars>>

\* faulty variant: the parsed flags are put in front of the accumulator
PrependParsed(acc, parsed_lib) == <<parsed_lib>> \o acc

\* ext_kwarg_libraries.append(parsed_lib), line 72
AppendParsed(acc, parsed_lib) == Append(acc, parsed_lib)

\* one iteration of the loop, second half (line 88): _parse_pkg_configs(lib)
ParsePkgConfigs ==
  /\ rpc = "parse"
  /\ parse_calls' = Append(parse_calls, libs[idx])
  /\ ext_kwarg_libraries' = AppendParsed(ext_kwarg_libraries, pkgconfig_parse(libs[idx]))
  /\ idx' = idx + 1
  /\ rpc' = "check"
  /\ UNCHANGED <<libs, registry_exists, registry_version, ext_kwargs, versionVars, buildVars>>

\* the loop is over: ext_kwargs['libraries'] = ext_kwarg_libraries (line 93)
AssignLibraries ==
  /\ rpc = "check"
  /\ idx > Len(libs)
  /\ ext_kwargs' = [set |-> TRUE, libraries |-> ext_kwarg_libraries]
  /\ rpc' = "done"
  /\ UNCHANGED <<libs, registry_exists, registry_version, idx,
                 ext_kwarg_libraries, parse_calls, versionVars, buildVars>>

\* ------------------------------------------------------------------------
\* The version extractor
\* ------------------------------------------------------------------------
\* A line is a sequence of tokens: the literal "#define", a macro name, or a
\* single character.  The line's final newline is left out: `.` never
\* matches it, and `\s+` cannot end on it with `(.+)` still to match.
MacroNames == {"BROTLI_VERSION_MAJOR", "BROTLI_VERSION_MINOR", "BROTLI_VERSION_PATCH"}

\* the lines a header is drawn from
HeaderLines ==
  { <<"#define", " ", "BROTLI_VERSION_MAJOR", " ", "1">>,
    <<"#define", " ", "BROTLI_VERSION_MINOR", " ", "0">>,
    <<"#define", " ", "BROTLI_VERSION_PATCH", " ", "9">>,
    <<"#define", " ", "BROTLI_VERSION_MAJOR", "\t", "2">>,
    <<"#define", " ", "BROTLI_VERSION_MAJOR">>,
    <<"#define", " ", "BROTLI_VERSION_MINOR", " ">>,
    <<"#define", " ", " ", "BROTLI_VERSION_MINOR", " ", "7">>,
    <<"#define", " ", "BROTLI_VERSION_PATCH", " ", " ", "r", "c">>,
    <<" ", "#define", " ", "BROTLI_VERSION_PATCH", " ", "3">>,
    <<"#define", " ", "BROTLI_VERSION_MINOR", " ", " ">>,
    <<"#define", " ", "BROTLI_VERSION_MAJOR", "_", "X", " ", "4">>,
    <<"/", "/", " ", "c">> }

\* what \s matches
IsSpace(c) == c \in {" ", "\t"}

\* the result of re.match when the line does not match (None)
NoMatch == <<>>

\* number of leading whitespace tokens of s
RECURSIVE LeadingSpaces(_)
LeadingSpaces(s) ==
  IF s = <<>> \/ ~IsSpace(Head(s)) THEN 0 ELSE 1 + LeadingSpaces(Tail(s))

\* re.match(rf'#define\s{macro}\s+(.+)', line), line 104: group(1), or NoMatch.
\* `\s+` is greedy and `(.+)` needs one character: when only whitespace
\* follows the macro, `\s+` gives its last character back to the group.
ReMatch(macro, line) ==
  IF /\ Len(line) >= 5
     /\ line[1] = "#define"
     /\ IsSpace(line[2])
     /\ line[3] = macro
     /\ IsSpace(line[4])
    THEN LET rest == SubSeq(line, 5, Len(line))
             k == LeadingSpaces(rest)
         IN IF k < Len(rest) THEN SubSeq(rest, k + 1, Len(rest))
                             ELSE <<rest[Len(rest)]>>
    ELSE NoMatch

\* faulty variant: the last matching line wins
RECURSIVE ReadDefineLast(_, _)
ReadDefineLast(lines, macro) ==
  IF lines = <<>> THEN <<>>
  ELSE LET m == ReMatch(macro, lines[Len(lines)])
       IN IF m # NoMatch THEN m
          ELSE ReadDefineLast(SubSeq(lines, 1, Len(lines) - 1), macro)

\* read_define(path, macro), lines 100-107, over the lines of the file
RECURSIVE read_define(_, _)
read_define(lines, macro) ==
  IF lines = <<>> THEN <<>>
  ELSE LET m == ReMatch(macro, Head(lines))
       IN IF m # NoMatch THEN m ELSE read_define(Tail(lines), macro)

\* faulty variant: the version is given up only when all three macros are missing
GetVersionAllMissing(lines) ==
  LET major == read_define(lines, "BROTLI_VERSION_MAJOR")
      minor == read_define(lines, "BROTLI_VERSION_MINOR")
      patch == read_define(lines, "BROTLI_VERSION_PATCH")
  IN IF major = <<>> /\ minor = <<>> /\ patch = <<>> THEN <<>>
     ELSE major \o <<".">> \o minor \o <<".">> \o patch

\* get_version(), lines 110-118; the strings are character sequences
get_version(lines) ==
  LET major == read_define(lines, "BROTLI_VERSION_MAJOR")
      minor == read_define(lines, "BROTLI_VERSION_MINOR")
      patch == read_define(lines, "BROTLI_VERSION_PATCH")
  IN IF major = <<>> \/ minor = <<>> \/ patch = <<>> THEN <<>>
     ELSE major \o <<".">> \o minor \o <<".">> \o patch

\* VERSION = get_version(), line 207
GetVersion ==
  /\ vpc = "start"
  /\ VERSION' = get_version(header)
  /\ vpc' = "done"
  /\ UNCHANGED <<header, resolveVars, buildVars>>

\* ------------------------------------------------------------------------
\* The extension builder
\* ------------------------------------------------------------------------
\* the input files a target may name
Files == {"python/_brotli.c", "python/glue.cc", "c/common/version.h"}

\* source.endswith('.c'), line 152
EndsWithDotC(source) == source \in {"python/_brotli.c"}

\* the object file the compiler writes for a source
ObjectOf(source) == IF source = "python/_brotli.c" THEN "python/_brotli.o" ELSE "other.o"

\* a file that does not exist has no modification time
Missing == -1

\* ext.sources is a Python value: None, a str, a list or a tuple
Sources(kind, items) == [kind |-> kind, items |-> items]

\* the Extension objects explored; the first is EXT_MODULES[0] (lines 249-256)
Targets ==
  { [sources |-> Sources("list", <<"python/_brotli.c">>), depends |-> <<>>,
     define_macros |-> <<>>, undef_macros |-> <<>>, extra_compile_args |-> <<>>,
     extra_objects |-> <<>>, extra_link_args |-> <<>>],
    [sources |-> Sources("None", <<>>), depends |-> <<>>,
     define_macros |-> <<>>, undef_macros |-> <<>>, extra_compile_args |-> <<>>,
     extra_objects |-> <<>>, extra_link_args |-> <<>>],
    [sources |-> Sources("str", <<>>), depends |-> <<>>,
     define_macros |-> <<>>, undef_macros |-> <<>>, extra_compile_args |-> <<>>,
     extra_objects |-> <<>>, extra_link_args |-> <<>>],
    [sources |-> Sources("list", <<>>), depends |-> <<"c/common/version.h">>,
     define_macros |-> <<>>, undef_macros |-> <<>>, extra_compile_args |-> <<>>,
     extra_objects |-> <<"prebuilt.o">>, extra_link_args |-> <<>>],
    [sources |-> Sources("tuple", <<"python/_brotli.c">>), depends |-> <<>>,
     define_macros |-> <<>>, undef_macros |-> <<>>, extra_compile_args |-> <<>>,
     extra_objects |-> <<>>, extra_link_args |-> <<>>],
    [sources |-> Sources("list", <<"python/_brotli.c", "python/glue.cc">>),
     depends |-> <<"c/common/version.h">>,
     define_macros |-> << <<"NDEBUG", "1">> >>, undef_macros |-> <<"DEBUG">>,
     extra_compile_args |-> <<"-O2">>,
     extra_objects |-> <<"prebuilt.o">>, extra_link_args |-> <<"-s">>] }

\* faulty variant: only a missing sources list is refused
IsNotNone(sources) == sources.kind # "None"

\* the negation of the test of line 136
IsListOrTuple(sources) == sources.kind # "None" /\ sources.kind \in {"list", "tuple"}

\* faulty variant: the declared dependency files are left out of the comparison
SourcesOnly(e) == e.sources.items

\* depends = ext.sources + ext.depends, line 143 (of a list; a tuple raises)
StalenessInputs(e) == e.sources.items \o e.depends

\* faulty variant: a source as old as the target counts as newer
NewerGroupOrEqual(sources, target_mtime) ==
  \/ target_mtime = Missing
  \/ \E i \in 1..Len(sources) :
       mtime[sources[i]] = Missing \/ mtime[sources[i]] >= target_mtime

\* dep_util.newer_group(sources, target, 'newer'), line 144: the target is
\* missing, or some source is missing or has a later modification time
newer_group(sources, target_mtime) ==
  \/ target_mtime = Missing
  \/ \E i \in 1..Len(sources) :
       mtime[sources[i]] = Missing \/ mtime[sources[i]] > target_mtime

\* lines 150-153
RECURSIVE CSources(_)
CSources(sources) ==
  IF sources = <<>> THEN <<>>
  ELSE IF EndsWithDotC(Head(sources)) THEN <<Head(sources)>> \o CSources(Tail(sources))
       ELSE CSources(Tail(sources))

\* faulty variant: the two platform tests are independent
PlatformMacrosBoth(system, ctype) ==
  (IF system = "Darwin" THEN << <<"OS_MACOSX", "1">> >> ELSE <<>>)
  \o (IF ctype = "mingw32" THEN << <<"_hypot", "hypot">> >> ELSE <<>>)

\* the defines lines 159-165 append
PlatformMacros(system, ctype) ==
  IF system = "Darwin" THEN << <<"OS_MACOSX", "1">> >>
  ELSE IF ctype = "mingw32" THEN << <<"_hypot", "hypot">> >>
  ELSE <<>>

\* lines 166-167: one (undef,) entry per undefined macro
UndefEntries(undefs) == [i \in 1..Len(undefs) |-> <<undefs[i]>>]

\* the list `macros` of lines 158-167
Macros(e, system, ctype) ==
  e.define_macros \o PlatformMacros(system, ctype) \o UndefEntries(e.undef_macros)

\* the object files of a successful compile call, one per source
ObjectsOf(sources) == [i \in 1..Len(sources) |-> ObjectOf(sources[i])]

\* faulty variant: a failed compile is swallowed and the build goes on
AfterCompileAlways(ok) == "Compiled"

\* where line 169 leaves the invocation: an exception of compile propagates
AfterCompile(ok) == IF ok THEN "Compiled" ELSE "Failed"

\* self._built_objects before the first assignment of line 179
NotBuilt == [set |-> FALSE, objects |-> <<>>]

\* lines 182-186: the list bound to extra_args for the link step.  A non-empty
\* ext.extra_link_args is that very list object, so extend() grows it in place.
StaticRuntimeArgs == <<"-static-libgcc", "-static-libstdc++">>

LinkExtraArgs(e, ctype) ==
  IF ctype = "mingw32" THEN e.extra_link_args \o StaticRuntimeArgs
  ELSE e.extra_link_args

\* ext.extra_link_args after line 186
ExtraLinkArgsAfter(e, ctype) ==
  IF e.extra_link_args # <<>> THEN LinkExtraArgs(e, ctype) ELSE e.extra_link_args

\* no exception has been raised
NoError == "none"

\* lines 136-140
Validate ==
  /\ bpc = "NotStarted"
  /\ bpc' = IF IsListOrTuple(ext.sources) THEN "Validated" ELSE "Failed"
  /\ error' = IF IsListOrTuple(ext.sources) THEN NoError ELSE "DistutilsSetupError"
  /\ UNCHANGED <<ext, platform_system, compiler_type, force, mtime, artifact, clock,
                 objects, built_objects, compile_log, link_log, builds, prev, touched,
                 resolveVars, versionVars>>

\* lines 142-176, up to the call of compiler.compile
StalenessCheck ==
  /\ bpc = "Validated"
  /\ IF ext.sources.kind # "list"
       THEN \* tuple + list raises TypeError at line 143
            /\ bpc' = "Failed"
            /\ error' = "TypeError"
            /\ UNCHANGED compile_log
       ELSE IF ~(force \/ newer_group(StalenessInputs(ext), artifact))
         THEN /\ bpc' = "UpToDate"
              /\ UNCHANGED <<compile_log, error>>
         ELSE /\ bpc' = "Compiling"
              /\ UNCHANGED error
              /\ compile_log' = Append(compile_log,
                    [sources |-> CSources(ext.sources.items),
                     macros |-> Macros(ext, platform_system, compiler_type),
                     extra_postargs |-> ext.extra_compile_args,
                     depends |-> ext.depends])
  /\ objects' = <<>>
  /\ UNCHANGED <<ext, platform_system, compiler_type, force, mtime, artifact, clock,
                 built_objects, link_log, builds, prev, touched,
                 resolveVars, versionVars>>

\* compiler.compile returns or raises (lines 169-177); it can succeed only
\* when every source handed to it exists
CompileReturns ==
  /\ bpc = "Compiling"
  /\ \E ok \in BOOLEAN :
       /\ ok => \A i \in 1..Len(compile_log[Len(compile_log)].sources) :
                   mtime[compile_log[Len(compile_log)].sources[i]] # Missing
       /\ bpc' = AfterCompile(ok)
       /\ error' = IF ok THEN NoError ELSE "CompileError"
       /\ objects' = IF ok THEN ObjectsOf(compile_log[Len(compile_log)].sources)
                     ELSE objects
  /\ UNCHANGED <<ext, platform_system, compiler_type, force, mtime, artifact, clock,
                 built_objects, compile_log, link_log, builds, prev, touched,
                 resolveVars, versionVars>>

\* lines 179-202, up to the call of compiler.link_shared_object
PrepareLink ==
  /\ bpc = "Compiled"
  /\ built_objects' = [set |-> TRUE, objects |-> objects]
  /\ objects' = objects \o ext.extra_objects
  /\ link_log' = Append(link_log,
        [objects |-> objects \o ext.extra_objects,
         extra_postargs |-> LinkExtraArgs(ext, compiler_type)])
  /\ ext' = [ext EXCEPT !.extra_link_args = ExtraLinkArgsAfter(ext, compiler_type)]
  /\ bpc' = "Linking"
  /\ UNCHANGED <<error, platform_system, compiler_type, force, mtime, artifact, clock,
                 compile_log, builds, prev, touched, resolveVars, versionVars>>

\* compiler.link_shared_object returns, having written the artifact, or raises
LinkReturns ==
  /\ bpc = "Linking"
  /\ \E ok \in BOOLEAN :
       /\ bpc' = IF ok THEN "Linked" ELSE "Failed"
       /\ error' = IF ok THEN NoError ELSE "LinkError"
       /\ artifact' = IF ok THEN clock ELSE artifact
  /\ UNCHANGED <<ext, platform_system, compiler_type, force, mtime, clock,
                 objects, built_objects, compile_log, link_log, builds, prev, touched,
                 resolveVars, versionVars>>

\* the packaging framework runs build_extension again in the same process
Invoke ==
  /\ bpc \in {"Linked", "UpToDate"}
  /\ builds < MaxBuilds
  /\ builds' = builds + 1
  /\ prev' = bpc
  /\ touched' = FALSE
  /\ bpc' = "NotStarted"
  /\ objects' = <<>>
  /\ compile_log' = <<>>
  /\ link_log' = <<>>
  /\ UNCHANGED <<error, ext, platform_system, compiler_type, force, mtime, artifact, clock,
                 built_objects, resolveVars, versionVars>>

\* the files whose modification time the target's build reads
TargetFiles(e) == {e.sources.items[i] : i \in 1..Len(e.sources.items)}
                  \cup {e.depends[i] : i \in 1..Len(e.depends)}

\* time passes between two invocations
Tick ==
  /\ bpc = "NotStarted"
  /\ clock < MaxClock
  /\ clock' = clock + 1
  /\ UNCHANGED <<error, ext, platform_system, compiler_type, force, mtime, artifact,
                 bpc, objects, built_objects, compile_log, link_log, builds, prev,
                 touched, resolveVars, versionVars>>

\* an input file is written (or created) between two invocations
Touch ==
  /\ bpc = "NotStarted"
  /\ \E f \in TargetFiles(ext) : mtime' = [mtime EXCEPT ![f] = clock]
  /\ touched' = TRUE
  /\ UNCHANGED <<error, ext, platform_system, compiler_type, force, artifact, clock,
                 bpc, objects, built_objects, compile_log, link_log, builds, prev,
                 resolveVars, versionVars>>

\* an input file is deleted between two invocations
Remove ==
  /\ bpc = "NotStarted"
  /\ \E f \in TargetFiles(ext) :
       /\ mtime[f] # Missing
       /\ mtime' = [mtime EXCEPT ![f] = Missing]
  /\ touched' = TRUE
  /\ UNCHANGED <<error, ext, platform_system, compiler_type, force, artifact, clock,
                 bpc, objects, built_objects, compile_log, link_log, builds, prev,
                 resolveVars, versionVars>>

\* the artifact is deleted between two invocations
RemoveArtifact ==
  /\ bpc = "NotStarted"
  /\ artifact # Missing
  /\ artifact' = Missing
  /\ UNCHANGED <<error, ext, platform_system, compiler_type, force, mtime, clock,
                 bpc, objects, built_objects, compile_log, link_log, builds, prev,
                 touched, resolveVars, versionVars>>

\* ------------------------------------------------------------------------
\* Specifications
\* ------------------------------------------------------------------------
InitResolve ==
  /\ libs \in SeqsOf(LibNames, 1, MaxLibs)
  /\ registry_exists \in [LibNames -> BOOLEAN]
  /\ registry_version \in [LibNames -> Versions]
  /\ rpc = "check"
  /\ idx = 1
  /\ ext_kwarg_libraries = <<>>
  /\ ext_kwargs = NoKwargs
  /\ parse_calls = <<>>
  /\ header = <<>>
  /\ vpc = "done"
  /\ VERSION = <<>>
  /\ ext = CHOOSE e \in Targets : e.sources.kind = "None"
  /\ platform_system = "Linux"
  /\ compiler_type = "unix"
  /\ force = FALSE
  /\ mtime = [f \in Files |-> 0]
  /\ artifact = Missing
  /\ clock = 0
  /\ bpc = "Failed"
  /\ error = "DistutilsSetupError"
  /\ objects = <<>>
  /\ built_objects = NotBuilt
  /\ compile_log = <<>>
  /\ link_log = <<>>
  /\ builds = 1
  /\ prev = "none"
  /\ touched = FALSE

ResolveNext ==
  \/ InstalledCheck
  \/ ParsePkgConfigs
  \/ AssignLibraries

SpecResolve == InitResolve /\ [][ResolveNext]_vars

InitVersion ==
  /\ header \in SeqsOf(HeaderLines, 0, MaxLines)
  /\ vpc = "start"
  /\ VERSION = <<>>
  /\ libs = <<"libbrotlidec">>
  /\ registry_exists = [l \in LibNames |-> TRUE]
  /\ registry_version = [l \in LibNames |-> <<1, 0, 9>>]
  /\ rpc = "done"
  /\ idx = 2
  /\ ext_kwarg_libraries = <<>>
  /\ ext_kwargs = NoKwargs
  /\ parse_calls = <<>>
  /\ ext = CHOOSE e \in Targets : e.sources.kind = "None"
  /\ platform_system = "Linux"
  /\ compiler_type = "unix"
  /\ force = FALSE
  /\ mtime = [f \in Files |-> 0]
  /\ artifact = Missing
  /\ clock = 0
  /\ bpc = "Failed"
  /\ error = "DistutilsSetupError"
  /\ objects = <<>>
  /\ built_objects = NotBuilt
  /\ compile_log = <<>>
  /\ link_log = <<>>
  /\ builds = 1
  /\ prev = "none"
  /\ touched = FALSE

VersionNext == GetVersion

SpecVersion == InitVersion /\ [][VersionNext]_vars

InitBuild ==
  /\ ext \in Targets
  /\ platform_system \in {"Darwin", "Linux", "Windows"}
  /\ compiler_type \in {"unix", "mingw32"}
  /\ force \in BOOLEAN
  /\ mtime = [f \in Files |-> 0]
  /\ artifact \in {Missing, 0}
  /\ clock = 0
  /\ bpc = "NotStarted"
  /\ error = NoError
  /\ objects = <<>>
  /\ built_objects = NotBuilt
  /\ compile_log = <<>>
  /\ link_log = <<>>
  /\ builds = 1
  /\ prev = "none"
  /\ touched = FALSE
  /\ libs = <<"libbrotlidec">>
  /\ registry_exists = [l \in LibNames |-> TRUE]
  /\ registry_version = [l \in LibNames |-> <<1, 0, 9>>]
  /\ rpc = "done"
  /\ idx = 2
  /\ ext_kwarg_libraries = <<>>
  /\ ext_kwargs = NoKwargs
  /\ parse_calls = <<>>
  /\ header = <<>>
  /\ vpc = "done"
  /\ VERSION = <<>>

BuildNext ==
  \/ Validate
  \/ StalenessCheck
  \/ CompileReturns
  \/ PrepareLink
  \/ LinkReturns
  \/ Invoke
  \/ Tick
  \/ Touch
  \/ Remove
  \/ RemoveArtifact

SpecBuild == InitBuild /\ [][BuildNext]_vars

\* ------------------------------------------------------------------------
\* Properties of the resolver (checked under SpecResolve)
\* ------------------------------------------------------------------------
\* the requirement at position i is met by the registry
RequirementMet(i) ==
  /\ registry_exists[libs[i]]
  /\ CompareVersions(registry_version[libs[i]], BROTLI_REQUIRED_VERSION.number) >= 0

\* C1: a library that the registry reports as present, but whose installed
\* version does not satisfy the required '>= 1.0.9', stops the resolver with
\* a fatal error: the run never gets past its position, its flags are never
\* fetched, and the run does not complete.
C1_VersionMismatchIsFatal ==
  \A i \in 1..Len(libs) :
    (registry_exists[libs[i]] /\ ~RequirementMet(i)) =>
       /\ rpc # "done"
       /\ idx <= i
       /\ (idx = i => rpc \in {"check", "failed"})
       /\ Len(parse_calls) < i

\* C2: when the registry reports exists=false for the library at position i,
\* the resolver never gets past position i, does not complete, and has
\* queried flags only for libraries at positions before i, in order.
C2_FailFastOnMissing ==
  \A i \in 1..Len(libs) :
    ~registry_exists[libs[i]] =>
       /\ rpc # "done"
       /\ idx <= i
       /\ (idx = i => rpc \in {"check", "failed"})
       /\ Len(parse_calls) < i
       /\ \A k \in 1..Len(parse_calls) : parse_calls[k] = libs[k]

\* C2 witness: the run failed at a missing library after fetching the flags
\* of an earlier one, with a later library still in the sequence.
C2_Witness ==
  /\ rpc = "failed"
  /\ idx > 1
  /\ idx < Len(libs)
  /\ ~registry_exists[libs[idx]]
  /\ Len(parse_calls) = idx - 1

Defines(i, macro) == ReMatch(macro, header[i]) # NoMatch

\* the text captured on the first line of the header defining the macro
FirstCapture(macro) ==
  LET i == CHOOSE j \in 1..Len(header) :
             Defines(j, macro) /\ \A k \in 1..(j - 1) : ~Defines(k, macro)
  IN ReMatch(macro, header[i])

\* the macros with a matching '#define' line in the header
DefinedMacros == {m \in MacroNames : \E i \in 1..Len(header) : Defines(i, m)}

\* C7: get_version returns the empty string when one of the three macros
\* has no matching '#define' line, and otherwise '<major>.<minor>.<patch>'
\* from the text captured on the first matching line of each macro.
C7_VersionAllOrNothing ==
  vpc = "done" =>
    IF DefinedMacros # MacroNames
      THEN VERSION = <<>>
      ELSE VERSION = FirstCapture("BROTLI_VERSION_MAJOR") \o <<".">>
                     \o FirstCapture("BROTLI_VERSION_MINOR") \o <<".">>
                     \o FirstCapture("BROTLI_VERSION_PATCH")

\* C7 witness: a header defining two of the three macros was read.
C7_Witness ==
  /\ vpc = "done"
  /\ Cardinality(DefinedMacros) = 2
  /\ VERSION = <<>>

\* ------------------------------------------------------------------------
\* Properties of the extension builder (checked under SpecBuild)
\* ------------------------------------------------------------------------
\* C4 as stated: a target with an empty sources list does not get past
\* validation, and no compiler or linker call is made for it.
C4_EmptySourcesRejected ==
  (ext.sources.kind = "list" /\ ext.sources.items = <<>>) =>
     /\ bpc \in {"NotStarted", "Failed"}
     /\ compile_log = <<>>
     /\ link_log = <<>>

\* C4 amended: a target whose sources is None, or neither a list nor a
\* tuple, fails with the configuration error before any compiler or linker
\* call; that error is raised for no other target, so only a list or a tuple
\* (an empty one included) gets past validation.
C4_MalformedSourcesRejected ==
  /\ ext.sources.kind \notin {"list", "tuple"} =>
       /\ bpc \in {"NotStarted", "Failed"}
       /\ bpc = "Failed" => error = "DistutilsSetupError"
       /\ compile_log = <<>>
       /\ link_log = <<>>
  /\ error = "DistutilsSetupError" =>
       /\ ext.sources.kind \notin {"list", "tuple"}
       /\ bpc = "Failed"

\* C4 witness: a target whose sources is a string was refused.
C4_Witness ==
  /\ ext.sources.kind = "str"
  /\ bpc = "Failed"
  /\ error = "DistutilsSetupError"

\* the input files of the target all exist
InputsExist == \A f \in TargetFiles(ext) : mtime[f] # Missing

\* an invocation that follows one that reached Linked, with no input file
\* changed in between, the artifact in place and no force flag; the
\* staleness check has been made
SecondBuildDecided ==
  /\ prev = "Linked"
  /\ ~touched
  /\ ~force
  /\ artifact # Missing
  /\ bpc \in {"UpToDate", "Compiling"}

C8_DarwinMacros ==
  (platform_system = "Darwin" /\ compile_log # <<>>) =>
     compile_log[Len(compile_log)].macros =
        ext.define_macros \o << <<"OS_MACOSX", "1">> >>
        \o [i \in 1..Len(ext.undef_macros) |-> <<ext.undef_macros[i]>>]

\* C8 witness: a compile call on Darwin with the mingw32 compiler, for a
\* target with defines and undefines of its own.
C8_Witness ==
  /\ platform_system = "Darwin"
  /\ compiler_type = "mingw32"
  /\ compile_log # <<>>
  /\ ext.define_macros # <<>>
  /\ ext.undef_macros # <<>>

\* the steps of one invocation, and the start of the next
BuildSteps ==
  { <<"NotStarted", "Validated">>, <<"NotStarted", "Failed">>,
    <<"Validated", "UpToDate">>, <<"Validated", "Compiling">>,
    <<"Validated", "Failed">>,
    <<"Compiling", "Compiled">>, <<"Compiling", "Failed">>,
    <<"Compiled", "Linking">>,
    <<"Linking", "Linked">>, <<"Linking", "Failed">>,
    <<"UpToDate", "NotStarted">>, <<"Linked", "NotStarted">> }

\* C9, the states: compile and link are each called at most once per
\* invocation, link only after the compile call returned without an
\* exception, and an exception leaves the invocation Failed.
C9_Calls ==
  /\ Len(compile_log) <= 1
  /\ Len(link_log) <= 1
  /\ link_log # <<>> => (compile_log # <<>> /\ bpc \in {"Linking", "Linked", "Failed"})
  /\ bpc \in {"Compiled", "Linking", "Linked"} => (error = NoError /\ compile_log # <<>>)
  /\ error # NoError <=> bpc = "Failed"
  /\ error = "CompileError" => link_log = <<>>
  /\ bpc = "UpToDate" => (compile_log = <<>> /\ link_log = <<>>)

\* C9, the steps: an invocation moves only along the state machine, a
\* failed compile records no built objects, and Failed is final: no step,
\* and so no retry of compile or link, follows it.
C9_Step ==
  /\ bpc' # bpc => <<bpc, bpc'>> \in BuildSteps
  /\ (bpc = "Compiling" /\ bpc' = "Failed") =>
        (built_objects' = built_objects /\ link_log' = link_log)
  /\ built_objects' # built_objects => (bpc = "Compiled" /\ bpc' = "Linking")
  /\ bpc = "Failed" => UNCHANGED vars

\* C9: a single invocation follows NotStarted -> Validated -> {UpToDate |
\* Compiling -> Compiled -> Linking -> Linked}, links at most once and only
\* after a successful compile, and a failure is final and never retried.
C9_BuildStateMachine == []C9_Calls /\ [][C9_Step]_vars

\* C9 witness: a compile call failed in an invocation that follows a
\* successful build.
C9_Witness ==
  /\ bpc = "Failed"
  /\ error = "CompileError"
  /\ builds = 2
  /\ built_objects.set

\* C10: no step of a build changes the target's configuration.
C10_TargetUnchanged == [][ext' = ext]_vars

=============================================================================
